---- MODULE Spec2Model ----
\* A model of gostringlist.StringList (src/gostringlist.go): an ordered, mutable
\* list of strings held in a Go slice, with its management, query and filter
\* methods.  A string is a sequence of bytes, a []string a sequence of strings;
\* Go's 0-based index i is position i+1 of the TLA+ sequence.
EXTENDS Integers, Sequences, FiniteSets

\* Longest list the mutators are allowed to build.
MaxLen == 3

\* The strings stored in lists: "a", "b", "ab".
Values == {<<97>>, <<98>>, <<97, 98>>}

\* The nil error and the errors the methods return.
Nil == "nil"
ErrRange == "index out of range"
ErrPanic == "panic: runtime error: slice bounds out of range"
ErrRegexp == "error parsing regexp: missing closing )"
ErrUnexpectedParen == "error parsing regexp: unexpected )"
ErrBracket == "error parsing regexp: missing closing ]"
ErrMissingRepeat == "error parsing regexp: missing argument to repetition operator"
ErrNestedRepeat == "error parsing regexp: invalid nested repetition operator"

Min(a, b) == IF a < b THEN a ELSE b

----------------------------------------------------------------------------
\* Go slice primitives

\* s[i:]
SliceFrom(s, i) == SubSeq(s, i + 1, Len(s))

\* s[:j]
SliceTo(s, j) == SubSeq(s, 1, j)

\* copy(dst, src): overwrites the first min(len(dst), len(src)) elements of dst
\* (memmove semantics: src is read as it was before the call); yields dst.
GoCopy(dst, src) ==
    [k \in 1..Len(dst) |-> IF k <= Min(Len(dst), Len(src)) THEN src[k] ELSE dst[k]]

\* copy(s[d:], s[f:]) on one slice s: the elements below d are untouched.
CopyWithin(s, d, f) == SliceTo(s, d) \o GoCopy(SliceFrom(s, d), SliceFrom(s, f))

----------------------------------------------------------------------------
\* Queries

\* for i, v := range list.Items { if str == v { return i } }; return -1
RECURSIVE IndexOfFrom(_, _, _)
IndexOfFrom(items, str, i) ==
    IF i >= Len(items) THEN -1
    ELSE IF str = items[i + 1] THEN i
    ELSE IndexOfFrom(items, str, i + 1)

IndexOfLast(items, str) ==
    IF \E k \in 1..Len(items) : items[k] = str
    THEN (CHOOSE k \in 1..Len(items) :
            items[k] = str /\ \A j \in (k + 1)..Len(items) : items[j] # str) - 1
    ELSE -1

IndexOf(items, str) == IndexOfFrom(items, str, 0)

\* for _, v := range list.Items { if str == v { return true } }; return false
RECURSIVE ContainsFrom(_, _, _)
ContainsFrom(items, str, i) ==
    IF i >= Len(items) THEN FALSE
    ELSE IF str = items[i + 1] THEN TRUE
    ELSE ContainsFrom(items, str, i + 1)

Contains(items, str) == ContainsFrom(items, str, 0)

RECURSIVE IsEqualFrom(_, _, _)
IsEqualFrom(items, items2, i) ==
    IF i >= Len(items) THEN TRUE
    ELSE IF items[i + 1] # items2[i + 1] THEN FALSE
    ELSE IsEqualFrom(items, items2, i + 1)

IsEqual(items, items2) ==
    IF Len(items) # Len(items2) THEN FALSE ELSE IsEqualFrom(items, items2, 0)

IsEmpty(items) == Len(items) = 0

----------------------------------------------------------------------------
\* Management

\* list.Items = append(list.Items, str)
ListAppend(items, str) == Append(items, str)

\* var newList StringList; copy(newList.Items, list.Items); return newList
\* newList.Items is the nil slice when copy runs.
Copy(items) == GoCopy(<<>>, items)

InsertShiftBack(items, str, index) ==
    IF index < 0 \/ index > Len(items)
    THEN [items |-> items, err |-> ErrRange]
    ELSE LET grown == Append(items, str)
             shifted == CopyWithin(grown, index, index + 1)
         IN  [items |-> [shifted EXCEPT ![index + 1] = str], err |-> Nil]

InsertNoCheck(items, str, index) ==
    LET grown == Append(items, str)
        at == Min(index, Len(items))
        pos == IF at < 0 THEN 0 ELSE at
        shifted == CopyWithin(grown, pos + 1, pos)
    IN  [items |-> [shifted EXCEPT ![pos + 1] = str], err |-> Nil]

Insert(items, str, index) ==
    IF index < 0 \/ index > Len(items)
    THEN [items |-> items, err |-> ErrRange]
    ELSE LET grown == Append(items, str)
             shifted == CopyWithin(grown, index + 1, index)
         IN  [items |-> [shifted EXCEPT ![index + 1] = str], err |-> Nil]

RemoveNoShift(items, str) ==
    LET index == IndexOf(items, str)
    IN  IF index < 0 THEN items ELSE SliceTo(items, Len(items) - 1)

RemoveLast(items, str) ==
    LET index == IndexOfLast(items, str)
    IN  IF index < 0 THEN items
        ELSE SliceTo(CopyWithin(items, index, index + 1), Len(items) - 1)

Remove(items, str) ==
    LET index == IndexOf(items, str)
    IN  IF index < 0 THEN items
        ELSE SliceTo(CopyWithin(items, index, index + 1), Len(items) - 1)

RemoveUnorderedNoMove(items, str) ==
    LET index == IndexOf(items, str)
    IN  IF index < 0 THEN items ELSE SliceTo(items, Len(items) - 1)

RemoveUnordered(items, str) ==
    LET index == IndexOf(items, str)
        length == Len(items)
    IN  IF index < 0 THEN items
        ELSE SliceTo([items EXCEPT ![index + 1] = items[length]], length - 1)

\* append's new capacity when needed items must fit: unchanged while they fit,
\* otherwise doubled (or needed, if that is more).  Slices this short stay under
\* the runtime's threshold for slower growth.
GrowCap(cap, needed) ==
    IF needed <= cap THEN cap
    ELSE IF needed > 2 * cap THEN needed
    ELSE 2 * cap

\* The second Insert of the source file: a value receiver, so the caller's
\* slice keeps its length; no range check; the copy runs towards the front.
\* append writes into the caller's array when it has room (len < cap) and into
\* a fresh array otherwise; the slice expressions panic when index < 0 or
\* index > len.  Yields the caller's items after the call.
Insert2(items, cap, str, index) ==
    LET n == Len(items)
        grown == Append(items, str)
    IN  IF index < 0 \/ index > n
        THEN [items |-> items, err |-> ErrPanic]
        ELSE LET shifted == CopyWithin(grown, index, index + 1)
                 written == [shifted EXCEPT ![index + 1] = str]
             IN  [items |-> IF n < cap THEN SliceTo(written, n) ELSE items, err |-> Nil]

\* The second Remove: a value receiver; the tail is shifted down in the
\* caller's array and the caller's length stays.
Remove2(items, str) ==
    LET index == IndexOf(items, str)
    IN  IF index < 0 THEN items ELSE CopyWithin(items, index, index + 1)

\* The second RemoveUnordered: a value receiver; the slot is overwritten with
\* the last item and the caller's length stays.
RemoveUnordered2(items, str) ==
    LET index == IndexOf(items, str)
        length == Len(items)
    IN  IF index < 0 THEN items ELSE [items EXCEPT ![index + 1] = items[length]]

\* x < y on Go strings: byte-wise lexicographic order.
RECURSIVE StrLess(_, _)
StrLess(x, y) ==
    IF Len(y) = 0 THEN FALSE
    ELSE IF Len(x) = 0 THEN TRUE
    ELSE IF x[1] # y[1] THEN x[1] < y[1]
    ELSE StrLess(Tail(x), Tail(y))

Swap(s, i, j) == [s EXCEPT ![i + 1] = s[j + 1], ![j + 1] = s[i + 1]]

\* sort.Strings on a short slice is the library's insertion sort:
\* for i := 1; i < n; i++ { for j := i; j > 0 && s[j] < s[j-1]; j-- { swap } }
RECURSIVE SortInner(_, _)
SortInner(s, j) ==
    IF j > 0 /\ StrLess(s[j + 1], s[j]) THEN SortInner(Swap(s, j, j - 1), j - 1) ELSE s

RECURSIVE SortOuter(_, _)
SortOuter(s, i) == IF i >= Len(s) THEN s ELSE SortOuter(SortInner(s, i), i + 1)

\* A sort that makes a single pass, sinking only the last item into place.
SortOnePass(items) == SortInner(items, Len(items) - 1)

Sort(items) == SortOuter(items, 1)

----------------------------------------------------------------------------
\* Rendering

\* strings.Join(elems, sep)
RECURSIVE StringsJoin(_, _)
StringsJoin(elems, sep) ==
    IF Len(elems) = 0 THEN <<>>
    ELSE IF Len(elems) = 1 THEN elems[1]
    ELSE elems[1] \o sep \o StringsJoin(Tail(elems), sep)

Join(items, sep) == StringsJoin(items, sep)

\* The loop of ToString: parts[partsIndex] = "\"" + v + "\"";
\* parts[partsIndex+1] = ","; partsIndex += 2
RECURSIVE ToStringParts(_, _, _)
ToStringParts(parts, items, k) ==
    IF k >= Len(items) THEN parts
    ELSE LET partsIndex == 1 + 2 * k
         IN  ToStringParts([parts EXCEPT ![partsIndex + 1] = <<34>> \o items[k + 1] \o <<34>>,
                                         ![partsIndex + 2] = <<44>>],
                           items, k + 1)

\* parts := make([]string, len*2+1); parts[0] = "["; the loop;
\* parts[len(parts)-1] = "]"; strings.Join(parts, "")
ToString(items) ==
    LET made == [k \in 1..(Len(items) * 2 + 1) |-> <<>>]
        opened == [made EXCEPT ![1] = <<91>>]
        filled == ToStringParts(opened, items, 0)
        closed == [filled EXCEPT ![Len(filled)] = <<93>>]
    IN  StringsJoin(closed, <<>>)

----------------------------------------------------------------------------
\* Filtering

\* strings.ToUpper on ASCII bytes
ToUpper(s) == [k \in 1..Len(s) |-> IF s[k] >= 97 /\ s[k] <= 122 THEN s[k] - 32 ELSE s[k]]

\* The caller-supplied functions handed to Filter.  Each is a pure function of
\* the index and the slice it is given and returns (keep, value).
FilterOps == {"toUpperOp", "keepAll", "dropRepeat", "evenIndex", "dropAll"}

CallOp(op, index, list) ==
    CASE op = "toUpperOp"  -> [keep |-> TRUE, out |-> ToUpper(list[index + 1])]
      [] op = "keepAll"    -> [keep |-> TRUE, out |-> list[index + 1]]
      [] op = "dropRepeat" -> [keep |-> index = 0 \/ list[index + 1] # list[index],
                               out |-> list[index + 1]]
      [] op = "evenIndex"  -> [keep |-> index % 2 = 0, out |-> list[index + 1]]
      [] op = "dropAll"    -> [keep |-> FALSE, out |-> <<>>]

\* A Filter that builds its result in the receiver's storage
\* (newList.Items = list.Items[:0]).
RECURSIVE FilterInPlaceLoop(_, _, _, _, _)
FilterInPlaceLoop(items, op, i, newItems, calls) ==
    IF i >= Len(items) THEN [items |-> items, out |-> newItems, calls |-> calls]
    ELSE LET r == CallOp(op, i, items)
             kept == IF r.keep THEN Append(newItems, r.out) ELSE newItems
         IN  FilterInPlaceLoop(kept \o SliceFrom(items, Len(kept)), op, i + 1, kept,
                               Append(calls, [index |-> i, list |-> items]))

FilterInPlace(items, op) == FilterInPlaceLoop(items, op, 0, <<>>, <<>>)

\* for i := range list.Items { addItem, out := op(i, list.Items);
\*                             if addItem { newList.Items = append(newList.Items, out) } }
\* calls records each invocation of op: the index and the slice it was passed.
RECURSIVE FilterLoop(_, _, _, _, _)
FilterLoop(items, op, i, newItems, calls) ==
    IF i >= Len(items) THEN [items |-> items, out |-> newItems, calls |-> calls]
    ELSE LET r == CallOp(op, i, items)
         IN  FilterLoop(items, op, i + 1,
                        IF r.keep THEN Append(newItems, r.out) ELSE newItems,
                        Append(calls, [index |-> i, list |-> items]))

Filter(items, op) == FilterLoop(items, op, 0, <<>>, <<>>)

\* The regexp engine (package regexp) is modelled for the patterns built from
\* literal bytes, ".", bracket sets of literal bytes, the POSIX classes
\* [[:upper:]], [[:lower:]] and [[:digit:]], "*" after a one-byte atom, and
\* parentheses that group a plain concatenation.

\* "[[:upper:]]", "[[:lower:]]", "[[:digit:]]"
PosixUpper == <<91, 91, 58, 117, 112, 112, 101, 114, 58, 93, 93>>
PosixLower == <<91, 91, 58, 108, 111, 119, 101, 114, 58, 93, 93>>
PosixDigit == <<91, 91, 58, 100, 105, 103, 105, 116, 58, 93, 93>>

\* The patterns handed to the engine: "a", "ab", "ab*", "b*",
\* "[[:upper:]][[:lower:]]*" and "[[:digit:]]" compile; "(" and "(a" open a
\* group they never close, which regexp.Compile rejects.
Patterns ==
    {<<97>>, <<97, 98>>, <<97, 98, 42>>, <<98, 42>>,
     PosixUpper \o PosixLower \o <<42>>, PosixDigit,
     <<40>>, <<40, 97>>}

\* The replacement texts: "A" and "" (neither holds a $ to expand).
Replacements == {<<65>>, <<>>}

HasPrefix(s, lit) == Len(lit) <= Len(s) /\ SubSeq(s, 1, Len(lit)) = lit

\* One atom of a compiled pattern: the bytes it accepts, and whether it is starred.
Atom(chars) == [chars |-> chars, star |-> FALSE]

ParseError(err) == [re |-> <<>>, err |-> err]

\* The parser of regexp.Compile, left to right from byte i (1-based) of the
\* pattern, depth open groups so far, re the atoms read so far.
RECURSIVE ParseFrom(_, _, _, _)
ParseFrom(pattern, i, depth, re) ==
    IF i > Len(pattern)
    THEN IF depth > 0 THEN ParseError(ErrRegexp) ELSE [re |-> re, err |-> Nil]
    ELSE LET c == pattern[i]
             rest == SliceFrom(pattern, i - 1)
             closes == {k \in (i + 2)..Len(pattern) : pattern[k] = 93}
             close == CHOOSE k \in closes : \A j \in closes : k <= j
         IN  CASE c = 40 -> ParseFrom(pattern, i + 1, depth + 1, re)
               [] c = 41 -> IF depth = 0 THEN ParseError(ErrUnexpectedParen)
                            ELSE ParseFrom(pattern, i + 1, depth - 1, re)
               [] c = 42 -> IF Len(re) = 0 THEN ParseError(ErrMissingRepeat)
                            ELSE IF re[Len(re)].star THEN ParseError(ErrNestedRepeat)
                            ELSE ParseFrom(pattern, i + 1, depth,
                                           [re EXCEPT ![Len(re)].star = TRUE])
               [] c = 46 -> ParseFrom(pattern, i + 1, depth,
                                      Append(re, Atom((0..255) \ {10})))
               [] c = 91 ->
                    IF HasPrefix(rest, PosixUpper)
                    THEN ParseFrom(pattern, i + 11, depth, Append(re, Atom(65..90)))
                    ELSE IF HasPrefix(rest, PosixLower)
                    THEN ParseFrom(pattern, i + 11, depth, Append(re, Atom(97..122)))
                    ELSE IF HasPrefix(rest, PosixDigit)
                    THEN ParseFrom(pattern, i + 11, depth, Append(re, Atom(48..57)))
                    ELSE IF closes = {} THEN ParseError(ErrBracket)
                    ELSE ParseFrom(pattern, close + 1, depth,
                                   Append(re, Atom({pattern[j] : j \in (i + 1)..(close - 1)})))
               [] OTHER -> ParseFrom(pattern, i + 1, depth, Append(re, Atom({c})))

\* regexp.Compile(pattern): (re, err)
RegexpCompile(pattern) == ParseFrom(pattern, 1, 0, <<>>)

\* How many bytes of s from offset p on are accepted by chars.
RECURSIVE RunLen(_, _, _)
RunLen(chars, s, p) ==
    IF p < Len(s) /\ s[p + 1] \in chars THEN 1 + RunLen(chars, s, p + 1) ELSE 0

\* The end offset of the match of atoms t.. of re that starts at offset p of s,
\* a starred atom taking as many bytes as it can (greedy, leftmost-first);
\* -1 when there is none.
RECURSIVE MatchEnd(_, _, _, _)
RECURSIVE TryStar(_, _, _, _, _)
MatchEnd(re, t, s, p) ==
    IF t > Len(re) THEN p
    ELSE IF re[t].star THEN TryStar(re, t, s, p, RunLen(re[t].chars, s, p))
    ELSE IF p < Len(s) /\ s[p + 1] \in re[t].chars THEN MatchEnd(re, t + 1, s, p + 1)
    ELSE -1

TryStar(re, t, s, p, k) ==
    LET e == MatchEnd(re, t + 1, s, p + k)
    IN  IF e # -1 THEN e
        ELSE IF k = 0 THEN -1
        ELSE TryStar(re, t, s, p, k - 1)

\* The leftmost match of re in s at or after offset from: <<start, end>>, or <<>>.
RECURSIVE FindFrom(_, _, _)
FindFrom(re, s, from) ==
    IF from > Len(s) THEN <<>>
    ELSE LET e == MatchEnd(re, 1, s, from)
         IN  IF e # -1 THEN <<from, e>> ELSE FindFrom(re, s, from + 1)

\* re.MatchString(s): re matches somewhere in s.
MatchString(re, s) == FindFrom(re, s, 0) # <<>>

\* The loop of Regexp.replaceAll: each leftmost match from searchPos on is
\* replaced, an empty match right after the previous match is not, and the
\* search always advances by at least one byte.
RECURSIVE ReplaceFrom(_, _, _, _, _, _)
ReplaceFrom(re, src, repl, searchPos, lastMatchEnd, buf) ==
    IF searchPos > Len(src) THEN buf \o SliceFrom(src, lastMatchEnd)
    ELSE LET a == FindFrom(re, src, searchPos)
         IN  IF a = <<>> THEN buf \o SliceFrom(src, lastMatchEnd)
             ELSE LET copied == buf \o SubSeq(src, lastMatchEnd + 1, a[1])
                      replaced == IF a[2] > lastMatchEnd \/ a[1] = 0
                                  THEN copied \o repl ELSE copied
                      width == IF searchPos < Len(src) THEN 1 ELSE 0
                      next == IF searchPos + width > a[2] THEN searchPos + width
                              ELSE IF searchPos + 1 > a[2] THEN searchPos + 1
                              ELSE a[2]
                  IN  ReplaceFrom(re, src, repl, next, a[2], replaced)

\* re.ReplaceAllString(src, repl)
ReplaceAllString(re, src, repl) == ReplaceFrom(re, src, repl, 0, 0, <<>>)

\* regexp.MatchString(pattern, s): compiles pattern, then matches: (matched, err)
RegexpMatchString(pattern, s) ==
    LET c == RegexpCompile(pattern)
    IN  IF c.err # Nil THEN [match |-> FALSE, err |-> c.err]
        ELSE [match |-> MatchString(c.re, s), err |-> Nil]

\* for _, item := range list.Items { if re.MatchString(item) { append } }
RECURSIVE MatchLoop(_, _, _, _)
MatchLoop(items, re, i, newItems) ==
    IF i >= Len(items) THEN newItems
    ELSE MatchLoop(items, re, i + 1,
                   IF MatchString(re, items[i + 1]) THEN Append(newItems, items[i + 1])
                   ELSE newItems)

\* MatchFilter: compiles first; on a compile error returns the zero StringList.
MatchFilter(items, pattern) ==
    LET c == RegexpCompile(pattern)
    IN  IF c.err # Nil THEN [out |-> <<>>, err |-> c.err]
        ELSE [out |-> MatchLoop(items, c.re, 0, <<>>), err |-> Nil]

\* The second MatchFilter of the source file: it compiles the pattern inside
\* the loop, once per item, through regexp.MatchString.
RECURSIVE MatchFilter2Loop(_, _, _, _)
MatchFilter2Loop(items, pattern, i, newItems) ==
    IF i >= Len(items) THEN [out |-> newItems, err |-> Nil]
    ELSE LET m == RegexpMatchString(pattern, items[i + 1])
         IN  IF m.err # Nil THEN [out |-> newItems, err |-> m.err]
             ELSE MatchFilter2Loop(items, pattern, i + 1,
                                   IF m.match THEN Append(newItems, items[i + 1])
                                   ELSE newItems)

MatchFilter2(items, pattern) == MatchFilter2Loop(items, pattern, 0, <<>>)

\* for i := range list.Items { append(re.ReplaceAllString(list.Items[i], repl)) }
RECURSIVE ReplaceLoop(_, _, _, _, _)
ReplaceLoop(items, re, repl, i, newItems) ==
    IF i >= Len(items) THEN newItems
    ELSE ReplaceLoop(items, re, repl, i + 1,
                     Append(newItems, ReplaceAllString(re, items[i + 1], repl)))

\* ReplaceAllFilter: makes the empty result, then compiles.
ReplaceAllFilter(items, pattern, repl) ==
    LET c == RegexpCompile(pattern)
    IN  IF c.err # Nil THEN [out |-> <<>>, err |-> c.err]
        ELSE [out |-> ReplaceLoop(items, c.re, repl, 0, <<>>), err |-> Nil]

----------------------------------------------------------------------------
\* The list and the calls made on it

VARIABLES
    Items,   \* list.Items of the one StringList
    Cap,     \* cap(list.Items)
    last,    \* the latest method call: its arguments, the items before it, its results
    prior    \* the call before that, kept when it was an Insert that succeeded or a Sort

vars == <<Items, Cap, last, prior>>

\* New(): the empty list; no call made yet.
NoCall ==
    [op |-> "New", str |-> <<>>, index |-> 0, fn |-> "", repl |-> <<>>,
     before |-> <<>>, err |-> Nil, out |-> <<>>, n |-> 0, b |-> FALSE,
     s |-> <<>>, calls |-> <<>>]

Call(op) == [NoCall EXCEPT !.op = op, !.before = Items]

NoPrior == [op |-> "other", str |-> <<>>, index |-> 0, before |-> <<>>]

Earlier ==
    IF last.op = "Insert" /\ last.err = Nil
    THEN [op |-> "Insert", str |-> last.str, index |-> last.index, before |-> last.before]
    ELSE IF last.op = "Sort"
    THEN [op |-> "Sort", str |-> <<>>, index |-> 0, before |-> last.before]
    ELSE NoPrior

\* The lists IsEqual is handed: the list itself, and a few fixed ones.
OtherLists == {Items, <<>>, <<<<97>>>>, <<<<97>>, <<98>>>>, <<<<98>>, <<97>>>>}

\* The separators Join is handed: "" and ",".
Separators == {<<>>, <<44>>}

Init ==
    /\ Items = <<>>
    /\ Cap = 0
    /\ last = NoCall
    /\ prior = NoPrior

CallAppend(str) ==
    /\ Len(Items) < MaxLen
    /\ Items' = ListAppend(Items, str)
    /\ Cap' = GrowCap(Cap, Len(Items) + 1)
    /\ last' = [Call("Append") EXCEPT !.str = str]
    /\ prior' = Earlier

CallInsert(str, index) ==
    /\ Len(Items) < MaxLen \/ index < 0 \/ index > Len(Items)
    /\ LET r == Insert(Items, str, index)
       IN  /\ Items' = r.items
           /\ Cap' = GrowCap(Cap, Len(r.items))
           /\ last' = [Call("Insert") EXCEPT !.str = str, !.index = index, !.err = r.err]
    /\ prior' = Earlier

CallInsert2(str, index) ==
    /\ LET r == Insert2(Items, Cap, str, index)
       IN  /\ Items' = r.items
           /\ last' = [Call("Insert2") EXCEPT !.str = str, !.index = index, !.err = r.err]
    /\ prior' = Earlier
    /\ UNCHANGED Cap

CallRemove2(str) ==
    /\ Items' = Remove2(Items, str)
    /\ last' = [Call("Remove2") EXCEPT !.str = str]
    /\ prior' = Earlier
    /\ UNCHANGED Cap

CallRemoveUnordered2(str) ==
    /\ Items' = RemoveUnordered2(Items, str)
    /\ last' = [Call("RemoveUnordered2") EXCEPT !.str = str]
    /\ prior' = Earlier
    /\ UNCHANGED Cap

CallRemove(str) ==
    /\ Items' = Remove(Items, str)
    /\ last' = [Call("Remove") EXCEPT !.str = str]
    /\ prior' = Earlier
    /\ UNCHANGED Cap

CallRemoveUnordered(str) ==
    /\ Items' = RemoveUnordered(Items, str)
    /\ last' = [Call("RemoveUnordered") EXCEPT !.str = str]
    /\ prior' = Earlier
    /\ UNCHANGED Cap

CallSort ==
    /\ Items' = Sort(Items)
    /\ last' = Call("Sort")
    /\ prior' = Earlier
    /\ UNCHANGED Cap

CallCopy ==
    /\ last' = [Call("Copy") EXCEPT !.out = Copy(Items)]
    /\ prior' = Earlier
    /\ UNCHANGED Cap
    /\ UNCHANGED Items

CallIsEqual(list2) ==
    /\ last' = [Call("IsEqual") EXCEPT !.out = list2, !.b = IsEqual(Items, list2)]
    /\ prior' = Earlier
    /\ UNCHANGED Cap
    /\ UNCHANGED Items

CallIsEmpty ==
    /\ last' = [Call("IsEmpty") EXCEPT !.b = IsEmpty(Items)]
    /\ prior' = Earlier
    /\ UNCHANGED Cap
    /\ UNCHANGED Items

CallIndexOf(str) ==
    /\ last' = [Call("IndexOf") EXCEPT !.str = str, !.n = IndexOf(Items, str)]
    /\ prior' = Earlier
    /\ UNCHANGED Cap
    /\ UNCHANGED Items

CallContains(str) ==
    /\ last' = [Call("Contains") EXCEPT !.str = str, !.b = Contains(Items, str)]
    /\ prior' = Earlier
    /\ UNCHANGED Cap
    /\ UNCHANGED Items

CallToString ==
    /\ last' = [Call("ToString") EXCEPT !.s = ToString(Items)]
    /\ prior' = Earlier
    /\ UNCHANGED Cap
    /\ UNCHANGED Items

CallJoin(sep) ==
    /\ last' = [Call("Join") EXCEPT !.str = sep, !.s = Join(Items, sep)]
    /\ prior' = Earlier
    /\ UNCHANGED Cap
    /\ UNCHANGED Items

CallFilter(op) ==
    /\ LET r == Filter(Items, op)
       IN  /\ Items' = r.items
           /\ last' = [Call("Filter") EXCEPT !.fn = op, !.out = r.out, !.calls = r.calls]
    /\ prior' = Earlier
    /\ UNCHANGED Cap

CallMatchFilter(pattern) ==
    /\ LET r == MatchFilter(Items, pattern)
       IN  last' = [Call("MatchFilter") EXCEPT !.str = pattern, !.out = r.out, !.err = r.err]
    /\ prior' = Earlier
    /\ UNCHANGED Cap
    /\ UNCHANGED Items

CallMatchFilter2(pattern) ==
    /\ LET r == MatchFilter2(Items, pattern)
       IN  last' = [Call("MatchFilter2") EXCEPT !.str = pattern, !.out = r.out, !.err = r.err]
    /\ prior' = Earlier
    /\ UNCHANGED Cap
    /\ UNCHANGED Items

CallReplaceAllFilter(pattern, repl) ==
    /\ LET r == ReplaceAllFilter(Items, pattern, repl)
       IN  last' = [Call("ReplaceAllFilter") EXCEPT !.str = pattern, !.repl = repl,
                                                   !.out = r.out, !.err = r.err]
    /\ prior' = Earlier
    /\ UNCHANGED Cap
    /\ UNCHANGED Items

Next ==
    \/ \E str \in Values : CallAppend(str)
    \/ \E str \in Values : \E index \in -1..(Len(Items) + 1) : CallInsert(str, index)
    \/ \E str \in Values : \E index \in -1..(Len(Items) + 1) : CallInsert2(str, index)
    \/ \E str \in Values : CallRemove(str)
    \/ \E str \in Values : CallRemove2(str)
    \/ \E str \in Values : CallRemoveUnordered2(str)
    \/ \E str \in Values : CallRemoveUnordered(str)
    \/ CallSort
    \/ CallCopy
    \/ \E list2 \in OtherLists : CallIsEqual(list2)
    \/ CallIsEmpty
    \/ \E str \in Values : CallIndexOf(str)
    \/ \E str \in Values : CallContains(str)
    \/ CallToString
    \/ \E sep \in Separators : CallJoin(sep)
    \/ \E op \in FilterOps : CallFilter(op)
    \/ \E pattern \in Patterns : CallMatchFilter(pattern)
    \/ \E pattern \in Patterns : CallMatchFilter2(pattern)
    \/ \E pattern \in Patterns : \E repl \in Replacements : CallReplaceAllFilter(pattern, repl)

Spec == Init /\ [][Next]_vars

----------------------------------------------------------------------------
\* Properties

First(items, str) == CHOOSE k \in 1..Len(items) :
                        items[k] = str /\ \A j \in 1..(k - 1) : items[j] # str

Occurs(items, str) == \E k \in 1..Len(items) : items[k] = str

Count(items, str) == Cardinality({k \in 1..Len(items) : items[k] = str})

\* C1: Insert(v, i) with 0 <= i <= n returns no error and leaves a list of
\* length n+1 with v at position i, the old items 0..i-1 before it unchanged
\* and the old items i..n-1 after it in the same order.
C1_InsertInRange ==
    (last.op = "Insert" /\ last.index >= 0 /\ last.index <= Len(last.before)) =>
        LET n == Len(last.before)
            i == last.index
        IN  /\ last.err = Nil
            /\ Len(Items) = n + 1
            /\ Items[i + 1] = last.str
            /\ \A k \in 1..i : Items[k] = last.before[k]
            /\ \A k \in (i + 1)..n : Items[k + 1] = last.before[k]

C1_Witness ==
    /\ last.op = "Insert"
    /\ last.index > 0
    /\ last.index < Len(last.before)
    /\ last.before[last.index] # last.before[last.index + 1]
    /\ last.err = Nil

\* C2: Insert(v, i) with i < 0 or i > n returns the out-of-range error and
\* leaves the items and the length as they were.
C2_InsertOutOfRange ==
    (last.op = "Insert" /\ (last.index < 0 \/ last.index > Len(last.before))) =>
        /\ last.err = ErrRange
        /\ Items = last.before

C2_Witness ==
    /\ last.op = "Insert"
    /\ last.index > Len(last.before)
    /\ Len(last.before) >= 2
    /\ last.err = ErrRange

\* C3: Remove(v) deletes exactly the lowest-index occurrence of v, shortening
\* the list by one and keeping the other items in order; when v does not occur
\* the list is unchanged.
C3_RemoveFirst ==
    last.op = "Remove" =>
        IF Occurs(last.before, last.str)
        THEN LET k == First(last.before, last.str)
             IN  /\ Len(Items) = Len(last.before) - 1
                 /\ \A j \in 1..(k - 1) : Items[j] = last.before[j]
                 /\ \A j \in k..Len(Items) : Items[j] = last.before[j + 1]
        ELSE Items = last.before /\ last.err = Nil

C3_Witness ==
    /\ last.op = "Remove"
    /\ Count(last.before, last.str) >= 2
    /\ First(last.before, last.str) > 1
    /\ Len(last.before) >= 3

\* C4: RemoveUnordered(v), with v first at index k, leaves n-1 items: the old
\* last item at position k (when k < n-1), every other position unchanged, and
\* the same multiset less one v; when v does not occur the list is unchanged.
C4_RemoveUnordered ==
    last.op = "RemoveUnordered" =>
        IF Occurs(last.before, last.str)
        THEN LET n == Len(last.before)
                 k == First(last.before, last.str)
             IN  /\ Len(Items) = n - 1
                 /\ k < n => Items[k] = last.before[n]
                 /\ \A j \in 1..(n - 1) : j # k => Items[j] = last.before[j]
                 /\ \A x \in Values :
                        Count(Items, x) =
                            Count(last.before, x) - (IF x = last.str THEN 1 ELSE 0)
        ELSE Items = last.before

C4_Witness ==
    /\ last.op = "RemoveUnordered"
    /\ Occurs(last.before, last.str)
    /\ First(last.before, last.str) < Len(last.before) - 1
    /\ last.before[Len(last.before)] # last.str

\* C5: Insert(v, i) with a valid i, where v does not occur below index i,
\* followed by Remove(v) gives a list equal (IsEqual) to the original.
C5_InsertThenRemove ==
    (/\ last.op = "Remove"
     /\ prior.op = "Insert"
     /\ last.str = prior.str
     /\ \A k \in 1..prior.index : prior.before[k] # prior.str) =>
        IsEqual(Items, prior.before)

C5_Witness ==
    /\ last.op = "Remove"
    /\ prior.op = "Insert"
    /\ last.str = prior.str
    /\ prior.index > 0
    /\ \A k \in 1..prior.index : prior.before[k] # prior.str
    /\ \E k \in (prior.index + 1)..Len(prior.before) : prior.before[k] = prior.str
    /\ IsEqual(Items, prior.before)

\* C6: for any list L, L.IsEqual(L.Copy()) is true: the copy has the length of
\* L and its value at every position.
C6_CopyIsEqual ==
    last.op = "Copy" =>
        /\ IsEqual(last.before, last.out)
        /\ Len(last.out) = Len(last.before)
        /\ \A k \in 1..Len(last.before) : last.out[k] = last.before[k]

\* The (keep, value) answers f gives over the original list, and the values of
\* those answers that say keep, in index order.
Answers(op, list) == [k \in 1..Len(list) |-> CallOp(op, k - 1, list)]

KeepFlag(r) == r.keep

Kept(op, list) ==
    LET yes == SelectSeq(Answers(op, list), KeepFlag)
    IN  [k \in 1..Len(yes) |-> yes[k].out]

\* C7: Filter(f) calls f once for each index 0..n-1 in ascending order, each
\* call is handed the original sequence, the result is the values of the calls
\* that said keep, in call order, and the list is as it was.
C7_FilterCalls ==
    last.op = "Filter" =>
        /\ Len(last.calls) = Len(last.before)
        /\ \A k \in 1..Len(last.calls) :
               last.calls[k].index = k - 1 /\ last.calls[k].list = last.before
        /\ last.out = Kept(last.fn, last.before)
        /\ Items = last.before

C7_Witness ==
    /\ last.op = "Filter"
    /\ last.fn = "dropRepeat"
    /\ Len(last.before) >= 3
    /\ Len(last.out) > 0
    /\ Len(last.out) < Len(last.before)
    /\ Len(last.calls) = Len(last.before)

\* C8: for every list, the empty one included, and every malformed pattern,
\* MatchFilter and ReplaceAllFilter return the compile error with an empty
\* result list and leave the items unchanged.
C8_MalformedPattern ==
    (last.op \in {"MatchFilter", "MatchFilter2", "ReplaceAllFilter"}
        /\ RegexpCompile(last.str).err # Nil) =>
        /\ last.err = RegexpCompile(last.str).err
        /\ last.out = <<>>
        /\ Items = last.before

\* "[" then each item in double quotes, a comma between neighbours, then "]".
Rendering(items) ==
    <<91>> \o StringsJoin([k \in 1..Len(items) |-> <<34>> \o items[k] \o <<34>>], <<44>>)
           \o <<93>>

\* C9: ToString returns the bracketed, comma-separated, double-quoted
\* rendering of the items, "[]" for the empty list, and does not change the list.
C9_ToString ==
    last.op = "ToString" =>
        /\ last.s = Rendering(last.before)
        /\ Items = last.before

\* Every string a query may be asked about: the stored ones and "c", never stored.
Asked == Values \cup {<<99>>}

\* C10: in every reachable state, IndexOf(v) is the smallest index holding v,
\* or -1 when none does; Contains(v) holds exactly when IndexOf(v) is not -1;
\* neither query changes the list.
C10_IndexOfContains ==
    /\ \A v \in Asked :
           /\ IndexOf(Items, v) = (IF Occurs(Items, v) THEN First(Items, v) - 1 ELSE -1)
           /\ Contains(Items, v) <=> (IndexOf(Items, v) # -1)
    /\ last.op = "IndexOf" =>
           /\ Items = last.before
           /\ last.err = Nil
           /\ last.n = (IF Occurs(Items, last.str) THEN First(Items, last.str) - 1 ELSE -1)
    /\ last.op = "Contains" =>
           /\ Items = last.before
           /\ last.b <=> Occurs(Items, last.str)

C10_Witness ==
    /\ last.op = "IndexOf"
    /\ Count(Items, last.str) >= 2
    /\ last.n > 0
    /\ \E v \in Values : ~Contains(Items, v)

\* x <= y in lexicographic byte order, stated directly: x is a prefix of y, or
\* at the first position where they differ x has the smaller byte.
LexLeq(x, y) ==
    \/ Len(x) <= Len(y) /\ \A k \in 1..Len(x) : x[k] = y[k]
    \/ \E k \in 1..Min(Len(x), Len(y)) :
           x[k] < y[k] /\ \A j \in 1..(k - 1) : x[j] = y[j]

\* C11: Sort leaves a permutation of the previous items (same length, same
\* multiset) in non-decreasing lexicographic order, and a second Sort right
\* after it leaves the list equal to the result of the first.
C11_SortPermutationIdempotent ==
    /\ last.op = "Sort" =>
           /\ Len(Items) = Len(last.before)
           /\ \A x \in Asked : Count(Items, x) = Count(last.before, x)
           /\ \A k \in 1..(Len(Items) - 1) : LexLeq(Items[k], Items[k + 1])
    /\ (last.op = "Sort" /\ prior.op = "Sort") => IsEqual(Items, last.before)

C11_Witness ==
    /\ last.op = "Sort"
    /\ prior.op = "Sort"
    /\ prior.before # last.before
    /\ Len(Items) >= 3
    /\ Occurs(Items, <<97>>)
    /\ Occurs(Items, <<97, 98>>)
    /\ Occurs(Items, <<98>>)
    /\ IsEqual(Items, last.before)

====
